---- MODULE Spec2Model ----
(***************************************************************************)
(* Model of server/steam-proxy.cjs: the POST /api/steam-sync pipeline      *)
(* (challenge verification, identifier resolution, achievement fetch,      *)
(* manifest intersection) and the start-up configuration check.            *)
(* Strings the code pattern-matches on are sequences of one-character      *)
(* strings; other strings are TLA+ strings.                                *)
(***************************************************************************)
EXTENDS Integers, Sequences, FiniteSets, TLC

VARIABLES STEAM_API_KEY, TURNSTILE_SECRET_KEY, IS_PROD, running,
          pc, req, profile, client, turnstileToken, ts, steamid64, calls,
          syncInvoked, res, replies, fnList, fnClient, fnOut

vars == <<STEAM_API_KEY, TURNSTILE_SECRET_KEY, IS_PROD, running,
          pc, req, profile, client, turnstileToken, ts, steamid64, calls,
          syncInvoked, res, replies, fnList, fnClient, fnOut>>

config == <<STEAM_API_KEY, TURNSTILE_SECRET_KEY, IS_PROD, running>>
fnVars == <<fnList, fnClient, fnOut>>

-----------------------------------------------------------------------------
(* Bounds and program constants *)

MaxManifest == 2
MaxList == 2
SteamIdLen == 17

-----------------------------------------------------------------------------
(* Character strings *)

Digits == {"0","1","2","3","4","5","6","7","8","9"}
WS == {" ", "\t"}
UpperSeq == <<"A","B","C","D","E","F","G","H","I","J","K","L","M",
              "N","O","P","Q","R","S","T","U","V","W","X","Y","Z">>
LowerSeq == <<"a","b","c","d","e","f","g","h","i","j","k","l","m",
              "n","o","p","q","r","s","t","u","v","w","x","y","z">>

SetMin(S) == CHOOSE x \in S : \A y \in S : x <= y
SetMax(S) == CHOOSE x \in S : \A y \in S : x >= y

\* String.prototype.trim
Trim(s) ==
  LET idx == {i \in 1..Len(s) : s[i] \notin WS}
  IN IF idx = {} THEN <<>> ELSE SubSeq(s, SetMin(idx), SetMax(idx))

\* the /i flag: characters are compared after case folding
ToLower(c) ==
  IF \E i \in 1..Len(UpperSeq) : UpperSeq[i] = c
  THEN LowerSeq[CHOOSE i \in 1..Len(UpperSeq) : UpperSeq[i] = c]
  ELSE c

ProfilesLit == <<"s","t","e","a","m","c","o","m","m","u","n","i","t","y",
                 ".","c","o","m","/","p","r","o","f","i","l","e","s","/">>
IdLit == <<"s","t","e","a","m","c","o","m","m","u","n","i","t","y",
           ".","c","o","m","/","i","d","/">>
TokenStop == {"/", "?", "#"}

\* the literal part of a pattern matches s at position i
LitAt(s, i, lit) ==
  /\ i + Len(lit) - 1 <= Len(s)
  /\ \A j \in 1..Len(lit) : ToLower(s[i + j - 1]) = lit[j]

DigitsAt(s, i, n) ==
  /\ i + n - 1 <= Len(s)
  /\ \A j \in 0..(n - 1) : s[i + j] \in Digits

cleanProfileUrl(u) == Trim(u)

isSteamID64(s) == Len(s) = SteamIdLen /\ \A i \in 1..Len(s) : s[i] \in Digits

\* p.match(/steamcommunity\.com\/profiles\/([0-9]{17})/i): group 1 of the
\* leftmost match, <<>> for null
mProfiles(p) ==
  LET hit(i) == LitAt(p, i, ProfilesLit)
                /\ DigitsAt(p, i + Len(ProfilesLit), SteamIdLen)
      H == {i \in 1..Len(p) : hit(i)}
  IN IF H = {} THEN <<>>
     ELSE SubSeq(p, SetMin(H) + Len(ProfilesLit),
                    SetMin(H) + Len(ProfilesLit) + SteamIdLen - 1)

\* p.match(/steamcommunity\.com\/id\/([^\/\?\#]+)/i): group 1 of the
\* leftmost match (greedy), <<>> for null
mVanity(p) ==
  LET s(i) == i + Len(IdLit)
      hit(i) == LitAt(p, i, IdLit) /\ s(i) <= Len(p) /\ p[s(i)] \notin TokenStop
      H == {i \in 1..Len(p) : hit(i)}
      stops(b) == {k \in b..Len(p) : p[k] \in TokenStop}
      e(b) == IF stops(b) = {} THEN Len(p) ELSE SetMin(stops(b)) - 1
  IN IF H = {} THEN <<>> ELSE SubSeq(p, s(SetMin(H)), e(s(SetMin(H))))

-----------------------------------------------------------------------------
(* Values *)

Msg(text, arg, code) == [text |-> text, arg |-> arg, code |-> code]
NoMsg == Msg("", <<>>, 0)
NoOut == [steamid64 |-> <<>>, unlocked |-> <<>>, count |-> 0]
NoTs == [done |-> FALSE, success |-> FALSE, skipped |-> FALSE,
         error |-> "", details |-> ""]
NoRes == [status |-> 0, error |-> NoMsg, details |-> "", out |-> NoOut]
Call(svc, arg) == [svc |-> svc, arg |-> arg]
\* the responses the pending fetches of the current request settled with
NoReplies == [turnstile |-> <<>>, vanity |-> <<>>, stats |-> <<>>]

\* a JS string is truthy iff it is not empty; an absent field reads as ""
Truthy(s) == s # ""

-----------------------------------------------------------------------------
(* Challenge Verifier *)

\* verifyTurnstileOrSkip up to its fetch
verifyEntry_secretFirst(token) ==
  IF TURNSTILE_SECRET_KEY = <<>>
  THEN [kind |-> "return",
        ts |-> [NoTs EXCEPT !.done = TRUE, !.success = TRUE, !.skipped = TRUE],
        msg |-> NoMsg]
  ELSE IF ~IS_PROD
  THEN [kind |-> "return",
        ts |-> [NoTs EXCEPT !.done = TRUE, !.success = TRUE, !.skipped = TRUE],
        msg |-> NoMsg]
  ELSE IF token = <<>>
  THEN [kind |-> "return",
        ts |-> [NoTs EXCEPT !.done = TRUE, !.error = "Missing turnstileToken"],
        msg |-> NoMsg]
  ELSE [kind |-> "fetch", ts |-> NoTs, msg |-> NoMsg]
verifyEntry_noTokenCheck(token) ==
  IF ~IS_PROD
  THEN [kind |-> "return",
        ts |-> [NoTs EXCEPT !.done = TRUE, !.success = TRUE, !.skipped = TRUE],
        msg |-> NoMsg]
  ELSE IF TURNSTILE_SECRET_KEY = <<>>
  THEN [kind |-> "throw", ts |-> NoTs,
        msg |-> Msg("Missing TURNSTILE_SECRET_KEY in production", <<>>, 0)]
  ELSE [kind |-> "fetch", ts |-> NoTs, msg |-> NoMsg]
verifyEntry_alwaysFetch(token) ==
  IF TURNSTILE_SECRET_KEY = <<>>
  THEN [kind |-> "throw", ts |-> NoTs,
        msg |-> Msg("Missing TURNSTILE_SECRET_KEY in production", <<>>, 0)]
  ELSE IF token = <<>>
  THEN [kind |-> "return",
        ts |-> [NoTs EXCEPT !.done = TRUE, !.error = "Missing turnstileToken"],
        msg |-> NoMsg]
  ELSE [kind |-> "fetch", ts |-> NoTs, msg |-> NoMsg]
verifyEntry(token) ==
  IF ~IS_PROD
  THEN [kind |-> "return",
        ts |-> [NoTs EXCEPT !.done = TRUE, !.success = TRUE, !.skipped = TRUE],
        msg |-> NoMsg]
  ELSE IF TURNSTILE_SECRET_KEY = <<>>
  THEN [kind |-> "throw", ts |-> NoTs,
        msg |-> Msg("Missing TURNSTILE_SECRET_KEY in production", <<>>, 0)]
  ELSE IF token = <<>>
  THEN [kind |-> "return",
        ts |-> [NoTs EXCEPT !.done = TRUE, !.error = "Missing turnstileToken"],
        msg |-> NoMsg]
  ELSE [kind |-> "fetch", ts |-> NoTs, msg |-> NoMsg]

\* replies of the challenge service: the fetch rejects, or a response whose
\* body is unparseable or is JSON with success true / false / absent
TurnstileBodies == {"unparseable", "success_true", "success_false", "no_flag"}
TurnstileReplies ==
  [neterr : {TRUE}, ok : {FALSE}, body : {"unparseable"}]
  \cup [neterr : {FALSE}, ok : BOOLEAN, body : TurnstileBodies]

\* resp.json().catch(() => null)
turnstileData(reply) == IF reply.body = "unparseable" THEN "null" ELSE reply.body

\* verifyTurnstileOrSkip from the settled fetch to its return
verifyResult_trustStatus(reply) ==
  IF reply.neterr
  THEN [kind |-> "throw", ts |-> NoTs, msg |-> Msg("fetch failed", <<>>, 0)]
  ELSE IF ~reply.ok
  THEN [kind |-> "return",
        ts |-> [NoTs EXCEPT !.done = TRUE, !.error = "Turnstile failed",
                            !.details = turnstileData(reply)],
        msg |-> NoMsg]
  ELSE [kind |-> "return",
        ts |-> [NoTs EXCEPT !.done = TRUE, !.success = TRUE], msg |-> NoMsg]
verifyResult(reply) ==
  IF reply.neterr
  THEN [kind |-> "throw", ts |-> NoTs, msg |-> Msg("fetch failed", <<>>, 0)]
  ELSE IF turnstileData(reply) # "success_true"
  THEN [kind |-> "return",
        ts |-> [NoTs EXCEPT !.done = TRUE, !.error = "Turnstile failed",
                            !.details = turnstileData(reply)],
        msg |-> NoMsg]
  ELSE [kind |-> "return",
        ts |-> [NoTs EXCEPT !.done = TRUE, !.success = TRUE], msg |-> NoMsg]

-----------------------------------------------------------------------------
(* Identifier Resolver *)

\* resolveSteamId64 up to its call of resolveVanity
resolveEntry_vanityFirst(pr) ==
  LET p == cleanProfileUrl(pr)
  IN IF isSteamID64(p) THEN [kind |-> "return", id |-> p]
     ELSE IF mVanity(p) # <<>> THEN [kind |-> "fetch", id |-> mVanity(p)]
     ELSE IF mProfiles(p) # <<>> THEN [kind |-> "return", id |-> mProfiles(p)]
     ELSE [kind |-> "fetch", id |-> p]
resolveEntry(pr) ==
  LET p == cleanProfileUrl(pr)
  IN IF isSteamID64(p) THEN [kind |-> "return", id |-> p]
     ELSE IF mProfiles(p) # <<>> THEN [kind |-> "return", id |-> mProfiles(p)]
     ELSE IF mVanity(p) # <<>> THEN [kind |-> "fetch", id |-> mVanity(p)]
     ELSE [kind |-> "fetch", id |-> p]

\* replies of the name-directory service: the fetch rejects, or a response
\* with an HTTP status and a body that is unparseable or is JSON carrying
\* response.success and response.steamid (<<>> when absent)
IdB == <<"7","6","5","6","1","1","9","7","9","6","0","2","6","5","7","2","8">>
IdShort == <<"1","2","3">>
VanityReplies ==
  [neterr : {TRUE}, status : {0}, parsed : {FALSE}, success : {0}, steamid : {<<>>}]
  \cup [neterr : {FALSE}, status : {200, 403}, parsed : {FALSE}, success : {0},
        steamid : {<<>>}]
  \cup [neterr : {FALSE}, status : {200, 403}, parsed : {TRUE}, success : {1, 42},
        steamid : {<<>>, IdB, IdShort}]

HttpOk(status) == status >= 200 /\ status <= 299

\* resolveVanity from the settled fetch to its return
vanityResult_leakKey(vanity, reply) ==
  IF reply.neterr
  THEN [kind |-> "throw", id |-> <<>>, msg |-> Msg("fetch failed", <<>>, 0)]
  ELSE IF ~HttpOk(reply.status)
  THEN [kind |-> "throw", id |-> <<>>,
        msg |-> Msg("ResolveVanityURL failed (HTTP )", <<>>, reply.status)]
  ELSE IF ~reply.parsed \/ reply.success # 1 \/ reply.steamid = <<>>
  THEN [kind |-> "throw", id |-> <<>>,
        msg |-> Msg("Could not resolve that Steam profile. (vanity=)",
                    STEAM_API_KEY \o vanity, 0)]
  ELSE [kind |-> "return", id |-> reply.steamid, msg |-> NoMsg]
vanityResult(vanity, reply) ==
  IF reply.neterr
  THEN [kind |-> "throw", id |-> <<>>, msg |-> Msg("fetch failed", <<>>, 0)]
  ELSE IF ~HttpOk(reply.status)
  THEN [kind |-> "throw", id |-> <<>>,
        msg |-> Msg("ResolveVanityURL failed (HTTP )", <<>>, reply.status)]
  ELSE IF ~reply.parsed \/ reply.success # 1 \/ reply.steamid = <<>>
  THEN [kind |-> "throw", id |-> <<>>,
        msg |-> Msg("Could not resolve that Steam profile. (vanity=)", vanity, 0)]
  ELSE [kind |-> "return", id |-> reply.steamid, msg |-> NoMsg]

-----------------------------------------------------------------------------
(* Achievement Fetcher *)

ApiNames == {"A", "B"}
AchievedVals == {0, 1, 2}
AchRecords == [apiname : ApiNames, achieved : AchievedVals]
ListSamples ==
  { <<>>,
    <<[apiname |-> "A", achieved |-> 1], [apiname |-> "B", achieved |-> 0]>>,
    <<[apiname |-> "B", achieved |-> 1], [apiname |-> "A", achieved |-> 1]>> }

\* replies of the stats service: the fetch rejects, or a response with an
\* HTTP status and a body that is unparseable or is JSON with or without
\* playerstats, playerstats.error ("" when absent) and playerstats.achievements
StatsReplies ==
  [neterr : {TRUE}, status : {0}, parsed : {FALSE}, hasPs : {FALSE},
   psError : {""}, achIsArray : {FALSE}, achievements : {<<>>}]
  \cup [neterr : {FALSE}, status : {200, 500}, parsed : {FALSE}, hasPs : {FALSE},
        psError : {""}, achIsArray : {FALSE}, achievements : {<<>>}]
  \cup [neterr : {FALSE}, status : {200}, parsed : {TRUE}, hasPs : {FALSE},
        psError : {""}, achIsArray : {FALSE}, achievements : {<<>>}]
  \cup [neterr : {FALSE}, status : {200}, parsed : {TRUE}, hasPs : {TRUE},
        psError : {"Profile is not public"}, achIsArray : {FALSE},
        achievements : {<<>>}]
  \cup [neterr : {FALSE}, status : {200}, parsed : {TRUE}, hasPs : {TRUE},
        psError : {""}, achIsArray : {FALSE}, achievements : {<<>>}]
  \cup [neterr : {FALSE}, status : {200}, parsed : {TRUE}, hasPs : {TRUE},
        psError : {""}, achIsArray : {TRUE}, achievements : ListSamples]

\* getPlayerAchievements from the settled fetch to its return
achievementsResult(reply) ==
  IF reply.neterr
  THEN [kind |-> "throw", list |-> <<>>, msg |-> Msg("fetch failed", <<>>, 0)]
  ELSE IF ~HttpOk(reply.status)
  THEN [kind |-> "throw", list |-> <<>>,
        msg |-> Msg("Steam API error (HTTP )", <<>>, reply.status)]
  ELSE IF ~reply.parsed \/ ~reply.hasPs
  THEN [kind |-> "throw", list |-> <<>>,
        msg |-> Msg("Unexpected Steam response (missing playerstats).", <<>>, 0)]
  ELSE IF Truthy(reply.psError)
  THEN [kind |-> "throw", list |-> <<>>, msg |-> Msg(reply.psError, <<>>, 0)]
  ELSE [kind |-> "return",
        list |-> IF reply.achIsArray THEN reply.achievements ELSE <<>>,
        msg |-> NoMsg]

-----------------------------------------------------------------------------
(* Sync Orchestrator *)

EmptyMap == [x \in {} |-> ""]
MapSet(m, k, v) == [x \in DOMAIN m \cup {k} |-> IF x = k THEN v ELSE m[x]]
\* Map.prototype.get; undefined reads as ""
MapGet(m, k) == IF k \in DOMAIN m THEN m[k] ELSE ""

RECURSIVE BuildMap(_, _)
BuildMap(c, m) ==
  IF c = <<>> THEN m
  ELSE LET a == Head(c)
       IN BuildMap(Tail(c),
                   IF Truthy(a.apiname) /\ Truthy(a.key)
                   THEN MapSet(m, a.apiname, a.key) ELSE m)

RECURSIVE BuildMapFirstWins(_, _)
BuildMapFirstWins(c, m) ==
  IF c = <<>> THEN m
  ELSE LET a == Head(c)
       IN BuildMapFirstWins(Tail(c),
                   IF Truthy(a.apiname) /\ Truthy(a.key) /\ a.apiname \notin DOMAIN m
                   THEN MapSet(m, a.apiname, a.key) ELSE m)

\* the apiToKey loop of handleSync
apiToKey_firstWins(cl) == BuildMapFirstWins(cl, EmptyMap)
apiToKey(cl) == BuildMap(cl, EmptyMap)

RECURSIVE Collect(_, _)
Collect(list, m) ==
  IF list = <<>> THEN <<>>
  ELSE LET a == Head(list)
           key == MapGet(m, a.apiname)
       IN IF a.achieved # 1 THEN Collect(Tail(list), m)
          ELSE IF Truthy(key) THEN <<key>> \o Collect(Tail(list), m)
          ELSE Collect(Tail(list), m)

\* the unlocked loop of handleSync
unlockedOf(list, m) == Collect(list, m)

\* handleSync after both awaits
handleSyncResult(id, list, cl) ==
  LET unlocked == unlockedOf(list, apiToKey(cl))
  IN [steamid64 |-> id, unlocked |-> unlocked, count |-> Len(unlocked)]

-----------------------------------------------------------------------------
(* Requests *)

D17 == <<"7","6","5","6","1","1","9","8","0","0","0","0","0","0","0","0","1">>
D16 == SubSeq(D17, 1, 16)
D18 == D17 \o <<"9">>
Https == <<"h","t","t","p","s",":","/","/">>
Bob == <<"b","o","b">>
KeyStr == <<"k","3","y">>
SecretStr == <<"s","3","c">>

ToUpper(c) ==
  IF \E i \in 1..Len(LowerSeq) : LowerSeq[i] = c
  THEN UpperSeq[CHOOSE i \in 1..Len(LowerSeq) : LowerSeq[i] = c]
  ELSE c
UpperOf(s) == [i \in 1..Len(s) |-> ToUpper(s[i])]
NoDot(s) == [i \in 1..Len(s) |-> IF s[i] = "." THEN "x" ELSE s[i]]

ProfileCores ==
  { <<>>, D17, D16, D18, Bob, KeyStr,
    Https \o ProfilesLit \o D17,
    ProfilesLit \o D18,
    UpperOf(ProfilesLit) \o D17,
    ProfilesLit \o D16,
    NoDot(ProfilesLit) \o D17,
    <<"x">> \o SubSeq(ProfilesLit, 19, Len(ProfilesLit)) \o D17,
    Https \o IdLit \o Bob,
    IdLit \o Bob \o <<"/">>,
    IdLit \o Bob \o <<"?", "x">>,
    IdLit \o <<"b", " ", "b", "#">>,
    UpperOf(IdLit) \o Bob,
    IdLit,
    IdLit \o <<"/">> \o IdLit \o Bob,
    IdLit \o Bob \o <<"/">> \o ProfilesLit \o D17,
    <<"x">> \o SubSeq(IdLit, 19, Len(IdLit)) \o Bob }
ProfileSamples ==
  ProfileCores \cup {<<" ">> \o c \o <<"\t">> : c \in ProfileCores}
TokenSamples == {<<>>, <<" ">>, <<"t">>}
ClientSamples ==
  { <<>>,
    <<[apiname |-> "A", key |-> "k1"], [apiname |-> "B", key |-> "k2"]>>,
    <<[apiname |-> "A", key |-> "k1"], [apiname |-> "A", key |-> "k3"]>> }

\* request bodies; an absent field is marked by its has/isArray flag
PostRequests ==
  [method : {"POST"}, hasProfile : {TRUE}, profile : ProfileSamples,
   clientIsArray : {TRUE}, client : ClientSamples, turnstileToken : TokenSamples]
  \cup [method : {"POST"}, hasProfile : {TRUE}, profile : ProfileSamples,
        clientIsArray : {FALSE}, client : {<<>>}, turnstileToken : TokenSamples]
  \cup [method : {"POST"}, hasProfile : {FALSE}, profile : {<<>>},
        clientIsArray : BOOLEAN, client : {<<>>}, turnstileToken : TokenSamples]
GetReq == [method |-> "GET", hasProfile |-> FALSE, profile |-> <<>>,
           clientIsArray |-> FALSE, client |-> <<>>, turnstileToken |-> <<>>]
NoReq == [method |-> "", hasProfile |-> FALSE, profile |-> <<>>,
          clientIsArray |-> FALSE, client |-> <<>>, turnstileToken |-> <<>>]

\* String(req.body?.profile || "").trim()
bodyProfile_noTrim(b) == IF b.hasProfile THEN b.profile ELSE <<>>
bodyProfile(b) == Trim(IF b.hasProfile THEN b.profile ELSE <<>>)
\* Array.isArray(req.body?.client) ? req.body.client : []
bodyClient(b) == IF b.clientIsArray THEN b.client ELSE <<>>
\* String(req.body?.turnstileToken || "").trim()
bodyToken(b) == Trim(b.turnstileToken)

-----------------------------------------------------------------------------
(* HTTP endpoint: the handler runs from one await to the next *)

Fresh == [pc |-> "idle", ts |-> NoTs, steamid64 |-> <<>>, calls |-> <<>>,
          syncInvoked |-> FALSE, res |-> NoRes]
Cur == [pc |-> pc, ts |-> ts, steamid64 |-> steamid64, calls |-> calls,
        syncInvoked |-> syncInvoked, res |-> res]
Commit(r) ==
  /\ pc' = r.pc
  /\ ts' = r.ts
  /\ steamid64' = r.steamid64
  /\ calls' = r.calls
  /\ syncInvoked' = r.syncInvoked
  /\ res' = r.res

Respond(r, status, err, details, out) ==
  [r EXCEPT !.pc = "done",
            !.res = [status |-> status, error |-> err, details |-> details,
                     out |-> out]]

\* catch (e): res.status(500).json({ error: e?.message || "Server error" })
Catch(r, msg) ==
  Respond(r, 500, IF Truthy(msg.text) THEN msg ELSE Msg("Server error", <<>>, 0),
          "", NoOut)

\* getPlayerAchievements up to its fetch
startFetch(r, id) ==
  [r EXCEPT !.pc = "ach_wait", !.steamid64 = id,
            !.calls = Append(@, Call("stats", id))]

\* handleSync up to the first fetch it awaits
startSync(r, pr) ==
  LET e == resolveEntry(pr)
      r1 == [r EXCEPT !.syncInvoked = TRUE]
  IN IF e.kind = "return" THEN startFetch(r1, e.id)
     ELSE [r1 EXCEPT !.pc = "vanity_wait",
                     !.calls = Append(@, Call("vanity", e.id))]

\* the handler from the result of verifyTurnstileOrSkip on
afterVerify(r, v, pr) ==
  IF v.kind = "throw" THEN Catch(r, v.msg)
  ELSE LET r1 == [r EXCEPT !.ts = v.ts]
       IN IF ~v.ts.success
          THEN Respond(r1, 400, Msg(v.ts.error, <<>>, 0), v.ts.details, NoOut)
          ELSE startSync(r1, pr)

\* resolveSteamId64 / handleSync from the result of resolveVanity on
afterVanity_fetchAnyway(r, v) ==
  startFetch(r, v.id)
afterVanity(r, v) ==
  IF v.kind = "throw" THEN Catch(r, v.msg) ELSE startFetch(r, v.id)

Init ==
  /\ STEAM_API_KEY \in {<<>>, KeyStr}
  /\ TURNSTILE_SECRET_KEY \in {<<>>, SecretStr}
  /\ IS_PROD \in BOOLEAN
  /\ running = (STEAM_API_KEY # <<>>)
  /\ pc = "idle"
  /\ req = NoReq
  /\ profile = <<>>
  /\ client = <<>>
  /\ turnstileToken = <<>>
  /\ ts = NoTs
  /\ steamid64 = <<>>
  /\ calls = <<>>
  /\ syncInvoked = FALSE
  /\ res = NoRes
  /\ replies = NoReplies
  /\ fnList = <<>>
  /\ fnClient = <<>>
  /\ fnOut = NoOut

PostRequest(b) ==
  /\ running
  /\ pc = "idle"
  /\ req' = b
  /\ profile' = bodyProfile(b)
  /\ IF profile' = <<>>
     THEN /\ client' = <<>>
          /\ turnstileToken' = <<>>
          /\ Commit(Respond(Fresh, 400, Msg("Missing profile", <<>>, 0), "", NoOut))
     ELSE /\ client' = bodyClient(b)
          /\ turnstileToken' = bodyToken(b)
          /\ LET v == verifyEntry(bodyToken(b))
             IN IF v.kind = "fetch"
                THEN Commit([Fresh EXCEPT !.pc = "verify_wait",
                                          !.calls = <<Call("turnstile", bodyToken(b))>>])
                ELSE Commit(afterVerify(Fresh, v, bodyProfile(b)))
  /\ replies' = NoReplies
  /\ UNCHANGED <<config, fnVars>>

GetRequest ==
  /\ running
  /\ pc = "idle"
  /\ req' = GetReq
  /\ Commit(Respond(Fresh, 400, Msg("Missing profile", <<>>, 0), "", NoOut))
  /\ replies' = NoReplies
  /\ UNCHANGED <<config, fnVars, profile, client, turnstileToken>>

TurnstileReply(reply) ==
  /\ pc = "verify_wait"
  /\ Commit(afterVerify(Cur, verifyResult(reply), profile))
  /\ replies' = [replies EXCEPT !.turnstile = Append(@, reply)]
  /\ UNCHANGED <<config, fnVars, req, profile, client, turnstileToken>>

VanityReply(reply) ==
  /\ pc = "vanity_wait"
  /\ Commit(afterVanity(Cur, vanityResult(calls[Len(calls)].arg, reply)))
  /\ replies' = [replies EXCEPT !.vanity = Append(@, reply)]
  /\ UNCHANGED <<config, fnVars, req, profile, client, turnstileToken>>

StatsReply(reply) ==
  /\ pc = "ach_wait"
  /\ LET a == achievementsResult(reply)
     IN IF a.kind = "throw" THEN Commit(Catch(Cur, a.msg))
        ELSE Commit(Respond(Cur, 200, NoMsg, "",
                            handleSyncResult(steamid64, a.list, client)))
  /\ replies' = [replies EXCEPT !.stats = Append(@, reply)]
  /\ UNCHANGED <<config, fnVars, req, profile, client, turnstileToken>>

\* the response is sent; nothing of the request is retained
NextRequest ==
  /\ pc = "done"
  /\ req' = NoReq
  /\ profile' = <<>>
  /\ client' = <<>>
  /\ turnstileToken' = <<>>
  /\ Commit(Fresh)
  /\ replies' = NoReplies
  /\ UNCHANGED <<config, fnVars>>

Next ==
  \/ \E b \in PostRequests : PostRequest(b)
  \/ GetRequest
  \/ \E reply \in TurnstileReplies : TurnstileReply(reply)
  \/ \E reply \in VanityReplies : VanityReply(reply)
  \/ \E reply \in StatsReplies : StatsReply(reply)
  \/ NextRequest

Spec == Init /\ [][Next]_vars

-----------------------------------------------------------------------------
(* The manifest intersection of handleSync on its own *)

RECURSIVE SeqsUpTo(_, _)
SeqsUpTo(S, n) ==
  IF n = 0 THEN {<<>>}
  ELSE SeqsUpTo(S, n - 1)
       \cup {Append(q, x) : q \in {t \in SeqsUpTo(S, n - 1) : Len(t) = n - 1}, x \in S}

ManifestKeys == {"", "k1", "k2"}
ManifestEntries == [apiname : ApiNames, key : ManifestKeys]

InitSync ==
  /\ STEAM_API_KEY = KeyStr
  /\ TURNSTILE_SECRET_KEY = <<>>
  /\ IS_PROD = FALSE
  /\ running = TRUE
  /\ pc = "sync_in"
  /\ req = NoReq
  /\ profile = <<>>
  /\ client = <<>>
  /\ turnstileToken = <<>>
  /\ ts = NoTs
  /\ steamid64 = D17
  /\ calls = <<>>
  /\ syncInvoked = FALSE
  /\ res = NoRes
  /\ replies = NoReplies
  /\ fnList \in SeqsUpTo(AchRecords, MaxList)
  /\ fnClient \in SeqsUpTo(ManifestEntries, MaxManifest)
  /\ fnOut = NoOut

ApplySync ==
  /\ pc = "sync_in"
  /\ pc' = "sync_out"
  /\ fnOut' = handleSyncResult(steamid64, fnList, fnClient)
  /\ UNCHANGED <<config, req, profile, client, turnstileToken, ts, steamid64,
                 calls, syncInvoked, res, replies, fnList, fnClient>>

NextSync == ApplySync

SpecSync == InitSync /\ [][NextSync]_vars

-----------------------------------------------------------------------------
(* Properties *)

Svcs == [i \in 1..Len(calls) |-> calls[i].svc]
Called(svc) == \E i \in 1..Len(calls) : calls[i].svc = svc
ArgsOf(svc) == SelectSeq(calls, LAMBDA c : c.svc = svc)
PostSeen == req.method = "POST"
\* the request carried a profile that is not empty after trimming
ProfileGiven == PostSeen /\ req.hasProfile /\ Trim(req.profile) # <<>>

\* s contains sub as a substring
Contains(s, sub) ==
  \E i \in 1..(Len(s) - Len(sub) + 1) : SubSeq(s, i, i + Len(sub) - 1) = sub
Leaks(msg) == Contains(msg.arg, STEAM_API_KEY)

TurnstileMalformed(r) == ~r.neterr /\ r.body = "unparseable"
TurnstileVerified(r) == ~r.neterr /\ r.body = "success_true"
VanityResolved(r) ==
  ~r.neterr /\ HttpOk(r.status) /\ r.parsed /\ r.success = 1 /\ r.steamid # <<>>
VanityMalformed(r) == ~r.neterr /\ ~r.parsed
StatsMalformed(r) == ~r.neterr /\ ~r.parsed

\* C1: a POST whose profile is absent or empty after trimming is answered
\* 400 and no outbound call is made for it, in either mode.
C1_EmptyProfileRejected ==
  (PostSeen /\ ~ProfileGiven) =>
     /\ pc = "done"
     /\ res.status = 400
     /\ calls = <<>>
     /\ replies = NoReplies

C1_Witness ==
  /\ PostSeen
  /\ req.hasProfile
  /\ req.profile # <<>>
  /\ Trim(req.profile) = <<>>
  /\ IS_PROD
  /\ res.status = 400

\* C2: the outbound calls of a request are made in the order challenge
\* verification, vanity resolution, achievement fetch, each at most once,
\* and a call is made only after every earlier step succeeded.
C2_OrderedNoRetry ==
  /\ Svcs \in { <<>>, <<"turnstile">>, <<"vanity">>, <<"stats">>,
                <<"turnstile", "vanity">>, <<"turnstile", "stats">>,
                <<"vanity", "stats">>, <<"turnstile", "vanity", "stats">> }
  /\ Len(replies.turnstile) <= Len(ArgsOf("turnstile"))
  /\ Len(replies.vanity) <= Len(ArgsOf("vanity"))
  /\ Len(replies.stats) <= Len(ArgsOf("stats"))
  /\ (IS_PROD /\ (Called("vanity") \/ Called("stats"))) =>
        /\ Svcs[1] = "turnstile"
        /\ Len(replies.turnstile) = 1
        /\ TurnstileVerified(replies.turnstile[1])
  /\ (Called("vanity") /\ Called("stats")) =>
        /\ Len(replies.vanity) = 1
        /\ VanityResolved(replies.vanity[1])
  /\ (pc = "done" /\ Called("turnstile")) => Len(replies.turnstile) = 1
  /\ (pc = "done" /\ Called("vanity")) => Len(replies.vanity) = 1
  /\ (pc = "done" /\ Called("stats")) => Len(replies.stats) = 1

C2_Witness ==
  /\ Svcs = <<"turnstile", "vanity", "stats">>
  /\ pc = "done"
  /\ res.status = 200

\* C3: in production mode without the verification secret no request
\* reaches the Sync Orchestrator, none is answered 200 and none is treated
\* as verified.
C3_NoSecretNoService ==
  (IS_PROD /\ TURNSTILE_SECRET_KEY = <<>>) =>
     /\ ~syncInvoked
     /\ res.status # 200
     /\ ~ts.success
     /\ calls = <<>>
     /\ (pc = "done" /\ ProfileGiven) => res.status = 500

C3_Witness ==
  /\ IS_PROD
  /\ TURNSTILE_SECRET_KEY = <<>>
  /\ ProfileGiven
  /\ pc = "done"
  /\ res.status = 500
  /\ res.error.text = "Missing TURNSTILE_SECRET_KEY in production"

\* C4 as stated: in production mode, when the challenge service's flag is
\* false, its body is unparseable or the call errors, the verifier returns
\* success:false and the endpoint answers 400 with the verifier's reason,
\* without invoking the Sync Orchestrator.
C4_Original ==
  (IS_PROD /\ Len(replies.turnstile) = 1
     /\ LET r == replies.turnstile[1]
        IN r.neterr \/ r.body \in {"unparseable", "success_false"}) =>
     /\ ts.done
     /\ ~ts.success
     /\ res.status = 400
     /\ res.error.text = ts.error
     /\ ~syncInvoked

\* C4 amended: in production mode, a false flag or an unparseable body makes
\* the verifier return success:false ("Turnstile failed", details = the
\* parsed body or null) and the endpoint answer 400 with that reason; a
\* failed call makes the verifier throw and the endpoint answer 500 with the
\* error's message; in all three cases the Sync Orchestrator is not invoked.
C4_VerifierFailure ==
  (IS_PROD /\ Len(replies.turnstile) = 1) =>
     LET r == replies.turnstile[1]
     IN /\ (~r.neterr /\ r.body \in {"unparseable", "success_false"}) =>
              /\ pc = "done"
              /\ ts.done
              /\ ~ts.success
              /\ ts.error = "Turnstile failed"
              /\ ts.details = (IF r.body = "unparseable" THEN "null" ELSE r.body)
              /\ res.status = 400
              /\ res.error.text = ts.error
              /\ res.details = ts.details
              /\ ~syncInvoked
              /\ Svcs = <<"turnstile">>
        /\ r.neterr =>
              /\ pc = "done"
              /\ ~ts.done
              /\ res.status = 500
              /\ res.error.text = "fetch failed"
              /\ ~syncInvoked
              /\ Svcs = <<"turnstile">>

C4_Witness ==
  /\ IS_PROD
  /\ Len(replies.turnstile) = 1
  /\ TurnstileMalformed(replies.turnstile[1])
  /\ replies.turnstile[1].ok
  /\ res.status = 400
  /\ res.details = "null"

\* the j-th smallest element of a set of numbers
NthOf(S, j) == CHOOSE x \in S : Cardinality({y \in S : y < x}) = j - 1
\* the elements of list at the positions in S, in list order, mapped by f
PickMap(list, S, f(_)) == [j \in 1..Cardinality(S) |-> f(list[NthOf(S, j)])]

InManifest(cl, n) == \E i \in 1..Len(cl) : cl[i].apiname = n
LastKey(cl, n) == cl[SetMax({i \in 1..Len(cl) : cl[i].apiname = n})].key
Usable(e) == e.apiname # "" /\ e.key # ""
InUsable(cl, n) == \E i \in 1..Len(cl) : cl[i].apiname = n /\ Usable(cl[i])
LastUsableKey(cl, n) ==
  cl[SetMax({i \in 1..Len(cl) : cl[i].apiname = n /\ Usable(cl[i])})].key

\* C5 as stated: unlocked is the keys of the achievements with achieved = 1
\* whose api-name occurs in the manifest, in list order, each mapped to the
\* key of the last manifest entry with that api-name; count is its length.
C5_Original ==
  pc = "sync_out" =>
    LET S == {i \in 1..Len(fnList) :
                fnList[i].achieved = 1 /\ InManifest(fnClient, fnList[i].apiname)}
        key(a) == LastKey(fnClient, a.apiname)
    IN /\ fnOut.unlocked = PickMap(fnList, S, key)
       /\ fnOut.count = Len(fnOut.unlocked)

\* C5 amended: manifest entries whose api-name or key is empty or absent are
\* ignored; unlocked is the keys of the achievements with achieved = 1 whose
\* api-name occurs in a remaining entry, in list order, each mapped to the
\* key of the last remaining entry with that api-name; count is its length.
C5_Unlocked ==
  pc = "sync_out" =>
    LET S == {i \in 1..Len(fnList) :
                fnList[i].achieved = 1 /\ InUsable(fnClient, fnList[i].apiname)}
        key(a) == LastUsableKey(fnClient, a.apiname)
    IN /\ fnOut.unlocked = PickMap(fnList, S, key)
       /\ fnOut.count = Len(fnOut.unlocked)
       /\ fnOut.steamid64 = steamid64

C5_Witness ==
  /\ pc = "sync_out"
  /\ Len(fnClient) = 2
  /\ fnClient[1].apiname = fnClient[2].apiname
  /\ fnClient[1].key = "k1"
  /\ fnClient[2].key = "k2"
  /\ Len(fnList) = 2
  /\ fnList[1].achieved = 1
  /\ fnList[1].apiname # fnClient[1].apiname
  /\ fnList[2].achieved = 1
  /\ fnList[2].apiname = fnClient[1].apiname
  /\ fnOut.unlocked = <<"k2">>
  /\ fnOut.count = 1

\* C6 as stated: an unparseable body from the name-directory, stats or
\* challenge-verification service yields a 500 response whose message does
\* not contain the API credential.
C6_Original ==
  (pc = "done" /\
     \/ (Len(replies.turnstile) = 1 /\ TurnstileMalformed(replies.turnstile[1]))
     \/ (Len(replies.vanity) = 1 /\ VanityMalformed(replies.vanity[1]))
     \/ (Len(replies.stats) = 1 /\ StatsMalformed(replies.stats[1]))) =>
     /\ res.status = 500
     /\ ~Leaks(res.error)

\* C6 amended: an unparseable body from the name-directory or stats service
\* yields a 500 response whose message contains the API credential only if
\* the vanity string the caller supplied contains it; an unparseable body
\* from the challenge-verification service yields a 400 response.
C6_MalformedBody ==
  pc = "done" =>
     /\ (Len(replies.vanity) = 1 /\ VanityMalformed(replies.vanity[1])) =>
           /\ res.status = 500
           /\ Leaks(res.error) => Contains(Trim(req.profile), STEAM_API_KEY)
     /\ (Len(replies.stats) = 1 /\ StatsMalformed(replies.stats[1])) =>
           /\ res.status = 500
           /\ ~Leaks(res.error)
     /\ (Len(replies.turnstile) = 1 /\ TurnstileMalformed(replies.turnstile[1])) =>
           /\ res.status = 400
           /\ ~Leaks(res.error)

C6_Witness ==
  /\ pc = "done"
  /\ Len(replies.vanity) = 1
  /\ VanityMalformed(replies.vanity[1])
  /\ HttpOk(replies.vanity[1].status)
  /\ res.status = 500
  /\ res.error.arg = Bob

\* C7: outside production mode verification succeeds and no call to the
\* challenge service is made, whatever the token and whether or not a
\* secret is configured.
C7_DevSkips ==
  (~IS_PROD /\ ProfileGiven) =>
     /\ ts.done
     /\ ts.success
     /\ ~Called("turnstile")
     /\ replies.turnstile = <<>>
     /\ syncInvoked

C7_Witness ==
  /\ ~IS_PROD
  /\ ProfileGiven
  /\ TURNSTILE_SECRET_KEY # <<>>
  /\ Trim(req.turnstileToken) = <<>>
  /\ ts.success
  /\ ts.skipped

\* C8: in production mode with a secret and an empty token, verification
\* fails with "Missing turnstileToken" without a call to the challenge
\* service, and the endpoint answers 400 without resolution or fetch.
C8_MissingToken ==
  (IS_PROD /\ TURNSTILE_SECRET_KEY # <<>> /\ ProfileGiven
     /\ Trim(req.turnstileToken) = <<>>) =>
     /\ pc = "done"
     /\ ts.done
     /\ ~ts.success
     /\ ts.error = "Missing turnstileToken"
     /\ calls = <<>>
     /\ res.status = 400
     /\ res.error.text = "Missing turnstileToken"
     /\ ~syncInvoked

C8_Witness ==
  /\ IS_PROD
  /\ TURNSTILE_SECRET_KEY # <<>>
  /\ ProfileGiven
  /\ req.turnstileToken = <<>>
  /\ res.status = 400
  /\ ts.error = "Missing turnstileToken"

LowerOf(s) == [i \in 1..Len(s) |-> ToLower(s[i])]
AllDigits(s) == \A i \in 1..Len(s) : s[i] \in Digits
\* lit occupies the lower-cased string ls from position i
OccursAt(ls, i, lit) ==
  /\ i + Len(lit) - 1 <= Len(ls)
  /\ SubSeq(ls, i, i + Len(lit) - 1) = lit
\* positions where steamcommunity.com/profiles/<17 digits> starts
ProfilesAt(p) ==
  LET ls == LowerOf(p)
  IN {i \in 1..(Len(p) - Len(ProfilesLit) - SteamIdLen + 1) :
        /\ OccursAt(ls, i, ProfilesLit)
        /\ AllDigits(SubSeq(p, i + Len(ProfilesLit),
                               i + Len(ProfilesLit) + SteamIdLen - 1))}
EmbeddedId(p) ==
  SubSeq(p, SetMin(ProfilesAt(p)) + Len(ProfilesLit),
            SetMin(ProfilesAt(p)) + Len(ProfilesLit) + SteamIdLen - 1)
\* the longest prefix of s free of "/", "?" and "#"
TokenOf(s) ==
  LET n == CHOOSE k \in 0..Len(s) :
             /\ \A j \in 1..k : s[j] \notin TokenStop
             /\ (k = Len(s) \/ s[k + 1] \in TokenStop)
  IN SubSeq(s, 1, n)
\* positions where steamcommunity.com/id/<non-empty token> starts
IdAt(p) ==
  LET ls == LowerOf(p)
  IN {i \in 1..(Len(p) - Len(IdLit)) :
        /\ OccursAt(ls, i, IdLit)
        /\ TokenOf(SubSeq(p, i + Len(IdLit), Len(p))) # <<>>}
VanityToken(p) == TokenOf(SubSeq(p, SetMin(IdAt(p)) + Len(IdLit), Len(p)))

C10_CanonicalId ==
  /\ \A i \in 1..Len(calls) :
        calls[i].svc = "stats" =>
           (Len(calls[i].arg) = SteamIdLen /\ AllDigits(calls[i].arg))
  /\ res.status = 200 =>
        (Len(res.out.steamid64) = SteamIdLen /\ AllDigits(res.out.steamid64))

====
